---- MODULE Spec2Model ----
(***************************************************************************)
(* State-machine model of src/src/olsr_telnet.c: the telnet server of      *)
(* olsrd (listener, client registry, line framer, non-blocking I/O driver  *)
(* and the pending -> linger -> destroy shutdown sequence).                *)
(*                                                                         *)
(* The program is single threaded: every reactor callback, timer callback  *)
(* and API call runs to completion, so each is one atomic action.  The C   *)
(* functions are operators over a record m that holds the whole program    *)
(* state; an action applies one of them to the current state.              *)
(*                                                                         *)
(* Memory is modelled by address: heap[a] keeps the last contents written  *)
(* to the telnet_client struct at address a, live is the set of addresses  *)
(* currently allocated.  Reading or freeing an address outside live is     *)
(* undefined behaviour; the model records it in faults and then takes one  *)
(* of two outcomes: the process aborts (crashed), or the stale contents    *)
(* are read and execution continues.                                       *)
(***************************************************************************)
EXTENDS Integers, Sequences, FiniteSets, TLC

\* ------------------------------------------------------------------ bounds
MaxClients == 1        \* addresses malloc can hand out for telnet_client structs
MaxIn == 2             \* bytes the live sessions may be given in total (received
                       \* from the peers or appended by other modules)
FramerLen == 3         \* bytes a client sends in the line-framer scenario
Sessions == 3          \* sessions at a time in the many-sessions scenario

\* --------------------------------------------------------------- constants
NULL == 0              \* the null pointer (s->clients, c->next)
NOFD == -1             \* the "closed" sentinel of s->fd
NUL == "NUL"           \* '\0'
LF == "LF"             \* '\n'
CR == "CR"             \* '\r'
CH == "a"              \* 'a', standing for every other byte

Addr == 1..MaxClients
TrioAddr == 1..Sessions        \* addresses in the many-sessions scenario
FD == 1..(Sessions + 1)        \* descriptors: the listener's and the sessions'
Byte == {CH, CR, LF}

SP_PR_READ == "SP_PR_READ"
SP_PR_WRITE == "SP_PR_WRITE"

\* outcomes of recv()/send() other than a byte count
EAGAIN == "EAGAIN"     \* errno EAGAIN, EWOULDBLOCK or EINTR, result -1
EFATAL == "EFATAL"     \* any other errno, result -1
EOF == "EOF"           \* recv() == 0

VARIABLES
  sfd,       \* s->fd
  clients,   \* s->clients, head of the singly linked registry
  heap,      \* contents of the telnet_client structs, by address
  live,      \* addresses allocated and not freed
  openfds,   \* descriptors open in the process
  socks,     \* the reactor's socket entries
  timers,    \* the timer service: contexts of the running one-shot timers
  crashed,   \* the process was aborted
  hist,      \* per address, history of the session living there (observation only)
  fault      \* the first undefined or invalid operation performed (observation only)

vars == <<sfd, clients, heap, live, openfds, socks, timers, crashed, hist, fault>>

\* ------------------------------------------------------------- sequences
RECURSIVE SeqsOfLen(_)
SeqsOfLen(n) ==
  IF n = 0 THEN {<<>>}
  ELSE {Append(s, b) : s \in SeqsOfLen(n - 1), b \in Byte}

SeqsUpTo(n) == UNION {SeqsOfLen(k) : k \in 1..n}

Drop(s, n) == SubSeq(s, n + 1, Len(s))
Take(s, n) == SubSeq(s, 1, n)

RECURSIVE CountLF(_)
CountLF(s) ==
  IF s = <<>> THEN 0
  ELSE (IF Head(s) = LF THEN 1 ELSE 0) + CountLF(Tail(s))

RECURSIVE SumOver(_, _)
SumOver(S, f) ==
  IF S = {} THEN 0
  ELSE LET x == CHOOSE y \in S : TRUE IN f[x] + SumOver(S \ {x}, f)

\* The C string starting at buf[0]: the bytes before the first NUL.
RECURSIVE cstr(_)
cstr(buf) ==
  IF buf = <<>> \/ Head(buf) = NUL THEN <<>>
  ELSE <<Head(buf)>> \o cstr(Tail(buf))

\* ------------------------------------------------------------ autobuf
abuf_pull(buf, n) == Drop(buf, n)
abuf_memcpy(buf, bytes) == buf \o bytes

\* ------------------------------------------------------------- state
\* rcvd: the bytes appended to the input buffer; lastoff: how many of them
\* came before the latest read; dlog: the command texts dispatched; dstate:
\* the state the session was in at each call of the dispatcher; queued:
\* the bytes appended to the output buffer, napi of them by other modules;
\* sent: the bytes send() accepted, in nsends calls; shut: shutdown(SHUT_WR)
\* calls; tstart: olsr_start_timer() calls; wdis: disable_olsr_socket() calls;
\* cut: the bytes that were in the output buffer when shutdown() was called.
NoHist == [rcvd |-> <<>>, lastoff |-> 0, dlog |-> <<>>, dstate |-> <<>>,
           queued |-> <<>>,
           napi |-> 0, sent |-> <<>>, nsends |-> 0, shut |-> 0, tstart |-> 0,
           wdis |-> 0, cut |-> <<>>]

NoClient == [fd |-> NOFD, state |-> "destroy", in |-> <<>>, out |-> <<>>,
             linger_timer |-> FALSE, next |-> NULL]

\* The program state as one record; ub is the outcome undefined behaviour takes
\* in the operation being run ("abort" or "stale"), an input of the action;
\* plug says whether a command handler is plugged in that answers without
\* asking for termination (FALSE: the built-in echo handler of the source).
Cur(ub) == [sfd |-> sfd, clients |-> clients, heap |-> heap, live |-> live,
            openfds |-> openfds, socks |-> socks, timers |-> timers,
            crashed |-> crashed, hist |-> hist, fault |-> fault, ub |-> ub,
            plug |-> FALSE]

Plugged(m) == [m EXCEPT !.plug = TRUE]

UB == {"abort", "stale"}

\* The addresses the list that starts at p leads to.
RECURSIVE Reach(_, _, _)
Reach(h, p, seen) ==
  IF p = NULL \/ p \in seen THEN seen
  ELSE Reach(h, h[p].next, seen \cup {p})

\* Freed memory no pointer of the program leads to is never read again: its
\* contents are not part of the state.
Collect(m) ==
  [a \in DOMAIN m.heap |->
     IF a \in m.live \/ a \in Reach(m.heap, m.clients, {}) THEN m.heap[a]
     ELSE NoClient]

Apply(m) ==
  /\ sfd' = m.sfd
  /\ clients' = m.clients
  /\ heap' = Collect(m)
  /\ live' = m.live
  /\ openfds' = m.openfds
  /\ socks' = m.socks
  /\ timers' = m.timers
  /\ crashed' = m.crashed
  /\ hist' = m.hist
  /\ fault' = m.fault

SetF(m, c, f, v) == [m EXCEPT !.heap[c][f] = v]
SetH(m, c, f, v) == [m EXCEPT !.hist[c][f] = v]

\* An access to the struct at address c: undefined when c is not allocated.
Fault(m, kind) == [m EXCEPT !.fault = IF @ = "none" THEN kind ELSE @]

Touch(m, c) ==
  IF c \in m.live THEN m
  ELSE [Fault(m, "use_after_free") EXCEPT !.crashed = @ \/ (m.ub = "abort")]

\* A loop of the program that never ends.
Hang(m) == [Fault(m, "endless_loop") EXCEPT !.crashed = TRUE]

\* ------------------------------------------------------------ reactor
add_olsr_socket(m, fd, cb, data, flags) ==
  [m EXCEPT !.socks = @ \cup {[fd |-> fd, cb |-> cb, data |-> data, flags |-> flags]}]

remove_olsr_socket(m, fd, cb) ==
  [m EXCEPT !.socks = {e \in @ : ~(e.fd = fd /\ e.cb = cb)}]

enable_olsr_socket(m, fd, cb, flag) ==
  [m EXCEPT !.socks = {IF e.fd = fd /\ e.cb = cb
                         THEN [e EXCEPT !.flags = @ \cup {flag}] ELSE e : e \in @}]

disable_olsr_socket(m, fd, cb, flag) ==
  [m EXCEPT !.socks = {IF e.fd = fd /\ e.cb = cb
                         THEN [e EXCEPT !.flags = @ \ {flag}] ELSE e : e \in @}]

\* close(): closing a descriptor that is not open is recorded.
close(m, fd) ==
  IF fd \in m.openfds THEN [m EXCEPT !.openfds = @ \ {fd}]
  ELSE Fault(m, "close_of_closed_fd")

\* socket()/accept() return the lowest descriptor not open.
LowestFd(m) == CHOOSE fd \in FD \ m.openfds : \A g \in FD \ m.openfds : fd <= g

\* ------------------------------------------------------------ timers
olsr_start_timer(m, c) == [m EXCEPT !.timers = @ \cup {c}]
olsr_stop_timer(m, c) == [m EXCEPT !.timers = @ \ {c}]

\* ------------------------------------------------------------ external API
\* olsr_telnet_init(): ok is the outcome of setsockopt/bind/listen.
olsr_telnet_init(m, ok) ==
  IF FD \ m.openfds = {} THEN [m EXCEPT !.sfd = NOFD]
  ELSE LET fd == LowestFd(m)
           m1 == [m EXCEPT !.sfd = fd, !.openfds = @ \cup {fd}]
       IN IF ok
            THEN add_olsr_socket(m1, fd, "telnet_action", NULL, {SP_PR_READ})
            ELSE [close(m1, fd) EXCEPT !.sfd = NOFD]

olsr_telnet_client_quit(m, c, now) ==
  IF now THEN SetF(m, c, "state", "destroy")
  ELSE SetF(m, c, "state", "pending")

\* olsr_telnet_client_printf(): text is the formatted string.
olsr_telnet_client_printf(m, c, text) ==
  LET m1 == SetF(m, c, "out", m.heap[c].out \o text)
  IN SetH(m1, c, "queued", m.hist[c].queued \o text)

\* ------------------------------------------------------------ registry
\* abuf_free(&c->out), abuf_free(&c->in) and free(c).  abuf_free() leaves the
\* buffers empty.  The program reads only fd, linger_timer and next of a
\* struct it has freed, so the freed struct's state field is not kept, and
\* the history of the session ends with it.
free(m, c) ==
  IF c \in m.live
    THEN [m EXCEPT !.live = @ \ {c}, !.hist[c] = NoHist,
                   !.heap[c].in = <<>>, !.heap[c].out = <<>>,
                   !.heap[c].state = "destroy"]
  ELSE [Fault(m, "double_free") EXCEPT !.crashed = @ \/ (m.ub = "abort")]

\* telnet_client_free() without the olsr_stop_timer() call.
telnet_client_free_keep_timer(m, c) ==
  LET m0 == Touch(m, c)
      fd == m.heap[c].fd
      m1 == IF fd # NOFD
              THEN close(remove_olsr_socket(m0, fd, "telnet_client_action"), fd)
              ELSE m0
  IN IF m0.crashed THEN m0 ELSE free(m1, c)

telnet_client_free(m, c) ==
  LET m0 == Touch(m, c)
      fd == m.heap[c].fd
      m1 == IF fd # NOFD
              THEN close(remove_olsr_socket(m0, fd, "telnet_client_action"), fd)
              ELSE m0
      m2 == IF m.heap[c].linger_timer THEN olsr_stop_timer(m1, c) ELSE m1
  IN IF m0.crashed THEN m0 ELSE free(m2, c)

\* The loop of telnet_client_cleanup(): c is the loop variable, done the
\* addresses already passed to telnet_client_free() by this call.
RECURSIVE cleanup_loop(_, _, _)
cleanup_loop(m, c, done) ==
  IF c = NULL \/ m.crashed THEN m
  ELSE IF c \in done THEN Hang(Touch(m, c))
  ELSE LET m0 == Touch(m, c)
           nxt == m.heap[c].next
       IN IF m0.crashed THEN m0
          ELSE cleanup_loop(telnet_client_free(m0, c), nxt, done \cup {c})

telnet_client_cleanup(m) == cleanup_loop(m, m.clients, {})

olsr_telnet_exit(m) ==
  LET m1 == telnet_client_cleanup(m)
  IN IF m1.crashed THEN m1
     ELSE IF m1.sfd # NOFD
       THEN [close(remove_olsr_socket(m1, m1.sfd, "telnet_action"), m1.sfd)
               EXCEPT !.sfd = NOFD]
       ELSE m1

\* telnet_client_add(): c is the address olsr_malloc() returns.
telnet_client_add(m, c, fd) ==
  LET m1 == [m EXCEPT !.live = @ \cup {c},
                      !.heap[c] = [fd |-> fd, state |-> "active", in |-> <<>>,
                                   out |-> <<>>, linger_timer |-> FALSE,
                                   next |-> m.clients],
                      !.hist[c] = NoHist,
                      !.clients = c]
  IN add_olsr_socket(m1, fd, "telnet_client_action", c, {SP_PR_READ})

\* The for loop of telnet_client_remove(): ptr is the loop variable.
RECURSIVE unlink_loop(_, _, _, _)
unlink_loop(m, c, ptr, seen) ==
  LET m0 == Touch(m, ptr)
      nxt == m.heap[ptr].next
  IN IF m0.crashed THEN m0
     ELSE IF nxt = NULL THEN m0
     ELSE IF nxt = c THEN SetF(m0, ptr, "next", m.heap[c].next)
     ELSE IF nxt \in seen THEN Hang(m0)
     ELSE unlink_loop(m0, c, nxt, seen \cup {nxt})

\* telnet_client_remove() unlinking as if c were always the head of the list.
telnet_client_remove_as_head(m, c) ==
  LET m0 == Touch(m, c)
      m1 == [m0 EXCEPT !.clients = m.heap[c].next]
  IN IF m0.crashed \/ m.clients = NULL THEN m0
     ELSE telnet_client_free(m1, c)

telnet_client_remove(m, c) ==
  LET m0 == Touch(m, c)
      m1 == IF c = m.clients
              THEN [m0 EXCEPT !.clients = m.heap[c].next]
              ELSE unlink_loop(m0, c, m.clients, {m.clients})
  IN IF m0.crashed \/ m.clients = NULL THEN m0
     ELSE IF m1.crashed THEN m1
     ELSE telnet_client_free(m1, c)

\* telnet_action(): accepted says whether accept() returned a descriptor,
\* c is the address olsr_malloc() returns for the new session.
telnet_action(m, accepted, c) ==
  IF ~accepted THEN m
  ELSE LET fd == LowestFd(m)
       IN telnet_client_add([m EXCEPT !.openfds = @ \cup {fd}], c, fd)

\* ------------------------------------------------------------ line framer
\* telnet_client_handle_cmd() asking for immediate instead of graceful
\* termination.
telnet_client_handle_cmd_quit_now(m, c, cmd) ==
  LET m0 == [m EXCEPT !.hist[c].dlog = Append(@, cmd),
                      !.hist[c].dstate = Append(@, m.heap[c].state)]
      m1 == olsr_telnet_client_printf(m0, c, cmd \o <<LF>>)
      m2 == olsr_telnet_client_quit(m1, c, TRUE)
  IN IF m2.heap[c].state # "destroy" /\ Len(m2.heap[c].out) # 0
       THEN enable_olsr_socket(m2, m2.heap[c].fd, "telnet_client_action", SP_PR_WRITE)
       ELSE m2

telnet_client_handle_cmd(m, c, cmd) ==
  LET m0 == [m EXCEPT !.hist[c].dlog = Append(@, cmd),
                      !.hist[c].dstate = Append(@, m.heap[c].state)]
      m1 == olsr_telnet_client_printf(m0, c, cmd \o <<LF>>)
      m2 == olsr_telnet_client_quit(m1, c, FALSE)
  IN IF m2.heap[c].state # "destroy" /\ Len(m2.heap[c].out) # 0
       THEN enable_olsr_socket(m2, m2.heap[c].fd, "telnet_client_action", SP_PR_WRITE)
       ELSE m2

\* A command handler that answers with the command text and leaves the
\* session as it is: telnet_client_handle_cmd() without the call of
\* olsr_telnet_client_quit().
telnet_client_handle_cmd_plugged(m, c, cmd) ==
  LET m0 == [m EXCEPT !.hist[c].dlog = Append(@, cmd),
                      !.hist[c].dstate = Append(@, m.heap[c].state)]
      m1 == olsr_telnet_client_printf(m0, c, cmd \o <<LF>>)
  IN IF m1.heap[c].state # "destroy" /\ Len(m1.heap[c].out) # 0
       THEN enable_olsr_socket(m1, m1.heap[c].fd, "telnet_client_action", SP_PR_WRITE)
       ELSE m1

\* The call of the dispatcher in telnet_client_fetch_lines().
dispatch(m, c, cmd) ==
  IF m.plug THEN telnet_client_handle_cmd_plugged(m, c, cmd)
  ELSE telnet_client_handle_cmd(m, c, cmd)

\* The for loop of telnet_client_fetch_lines(); i is the C index (from 0).
\* After abuf_pull(i+1) the loop goes on with ++i: i is not set back.
RECURSIVE fetch_loop(_, _, _)
fetch_loop(m, c, i) ==
  LET buf == m.heap[c].in
  IN IF ~(i < Len(buf)) THEN m
     ELSE IF buf[i + 1] # LF THEN fetch_loop(m, c, i + 1)
     ELSE LET b1 == [buf EXCEPT ![i + 1] = NUL]
              b2 == IF i > 0 /\ b1[i] = CR THEN [b1 EXCEPT ![i] = NUL] ELSE b1
              m1 == dispatch(SetF(m, c, "in", b2), c, cstr(b2))
          IN IF m1.heap[c].state # "active" THEN m1
             ELSE IF i >= Len(m1.heap[c].in)
               THEN SetF(m1, c, "in", abuf_pull(m1.heap[c].in, Len(m1.heap[c].in)))
             ELSE fetch_loop(SetF(m1, c, "in", abuf_pull(m1.heap[c].in, i + 1)),
                             c, i + 1)

telnet_client_fetch_lines(m, c, offset) == fetch_loop(m, c, offset)

\* ------------------------------------------------------------ I/O driver
\* telnet_client_read() taking the scan offset after the bytes were appended.
telnet_client_read_late_offset(m, c, result) ==
  IF result.k = "data"
    THEN LET m1 == SetF(m, c, "in", abuf_memcpy(m.heap[c].in, result.bytes))
             m2 == [m1 EXCEPT !.hist[c].rcvd = @ \o result.bytes,
                              !.hist[c].lastoff = Len(m.hist[c].rcvd)]
         IN IF m.heap[c].state # "active" THEN m
            ELSE telnet_client_fetch_lines(m2, c, Len(m1.heap[c].in))
  ELSE IF result.k = EAGAIN THEN m
  ELSE SetF(m, c, "state", "destroy")

\* telnet_client_read() without the test of errno: every negative result of
\* recv() ends the session.
telnet_client_read_eagain_fatal(m, c, result) ==
  IF result.k = "data"
    THEN LET offset == Len(m.heap[c].in)
             m1 == SetF(m, c, "in", abuf_memcpy(m.heap[c].in, result.bytes))
             m2 == [m1 EXCEPT !.hist[c].rcvd = @ \o result.bytes,
                              !.hist[c].lastoff = Len(m.hist[c].rcvd)]
         IN IF m.heap[c].state # "active" THEN m
            ELSE telnet_client_fetch_lines(m2, c, offset)
  ELSE SetF(m, c, "state", "destroy")

\* telnet_client_read() without the test of the session state.
telnet_client_read_any_state(m, c, result) ==
  IF result.k = "data"
    THEN LET offset == Len(m.heap[c].in)
             m1 == SetF(m, c, "in", abuf_memcpy(m.heap[c].in, result.bytes))
             m2 == [m1 EXCEPT !.hist[c].rcvd = @ \o result.bytes,
                              !.hist[c].lastoff = Len(m.hist[c].rcvd)]
         IN telnet_client_fetch_lines(m2, c, offset)
  ELSE IF result.k = EOF THEN SetF(m, c, "state", "destroy")
  ELSE IF result.k = EAGAIN THEN m
  ELSE SetF(m, c, "state", "destroy")

\* result is what recv() returned: [k |-> "data", bytes |-> ...], or
\* [k |-> EOF], [k |-> EAGAIN], [k |-> EFATAL].
telnet_client_read(m, c, result) ==
  IF result.k = "data"
    THEN LET offset == Len(m.heap[c].in)
             m1 == SetF(m, c, "in", abuf_memcpy(m.heap[c].in, result.bytes))
             m2 == [m1 EXCEPT !.hist[c].rcvd = @ \o result.bytes,
                              !.hist[c].lastoff = Len(m.hist[c].rcvd)]
         IN IF m.heap[c].state # "active" THEN m
            ELSE telnet_client_fetch_lines(m2, c, offset)
  ELSE IF result.k = EOF THEN SetF(m, c, "state", "destroy")
  ELSE IF result.k = EAGAIN THEN m
  ELSE SetF(m, c, "state", "destroy")

\* telnet_client_write() consuming the whole buffer whatever send() accepted.
telnet_client_write_pull_all(m, c, result) ==
  IF result.k = "n" /\ result.n > 0
    THEN LET m1 == SetF(m, c, "out", <<>>)
             m2 == [m1 EXCEPT !.hist[c].sent = @ \o Take(m.heap[c].out, result.n),
                              !.hist[c].nsends = @ + 1]
             m3 == disable_olsr_socket(m2, m2.heap[c].fd, "telnet_client_action",
                                       SP_PR_WRITE)
             m4 == SetH(m3, c, "wdis", m.hist[c].wdis + 1)
         IN IF m4.heap[c].state = "pending"
              THEN SetF(m4, c, "state", "linger") ELSE m4
  ELSE IF result.k = "n" THEN m
  ELSE IF result.k = EAGAIN THEN m
  ELSE SetF(m, c, "state", "destroy")

\* telnet_client_write() moving a pending session to linger after any
\* successful send, whether or not the buffer is empty.
telnet_client_write_linger_early(m, c, result) ==
  IF result.k = "n" /\ result.n > 0
    THEN LET m1 == SetF(m, c, "out", abuf_pull(m.heap[c].out, result.n))
             m2 == [m1 EXCEPT !.hist[c].sent = @ \o Take(m.heap[c].out, result.n),
                              !.hist[c].nsends = @ + 1]
             m3 == disable_olsr_socket(m2, m2.heap[c].fd, "telnet_client_action",
                                       SP_PR_WRITE)
             m4 == IF Len(m2.heap[c].out) = 0
                     THEN SetH(m3, c, "wdis", m.hist[c].wdis + 1) ELSE m2
         IN IF m4.heap[c].state = "pending"
              THEN SetF(m4, c, "state", "linger") ELSE m4
  ELSE IF result.k = "n" THEN m
  ELSE IF result.k = EAGAIN THEN m
  ELSE SetF(m, c, "state", "destroy")

\* result is what send() returned: [k |-> "n", n |-> bytes accepted], or
\* [k |-> EAGAIN], [k |-> EFATAL].
telnet_client_write(m, c, result) ==
  IF result.k = "n" /\ result.n > 0
    THEN LET m1 == SetF(m, c, "out", abuf_pull(m.heap[c].out, result.n))
             m2 == [m1 EXCEPT !.hist[c].sent = @ \o Take(m.heap[c].out, result.n),
                              !.hist[c].nsends = @ + 1]
             m3 == disable_olsr_socket(m2, m2.heap[c].fd, "telnet_client_action",
                                       SP_PR_WRITE)
             m4 == SetH(m3, c, "wdis", m.hist[c].wdis + 1)
         IN IF Len(m2.heap[c].out) = 0
              THEN IF m4.heap[c].state = "pending"
                     THEN SetF(m4, c, "state", "linger") ELSE m4
              ELSE m2
  ELSE IF result.k = "n" THEN m
  ELSE IF result.k = EAGAIN THEN m
  ELSE SetF(m, c, "state", "destroy")

\* The post-event check without the test that no linger timer runs yet.
post_event_no_timer_test(m, c) ==
  IF m.heap[c].state = "linger"
    THEN LET m1 == [m EXCEPT !.hist[c].shut = @ + 1, !.hist[c].tstart = @ + 1,
                             !.hist[c].cut = @ \o m.heap[c].out]
         IN SetF(olsr_start_timer(m1, c), c, "linger_timer", TRUE)
  ELSE IF m.heap[c].state = "destroy" THEN telnet_client_remove(m, c)
  ELSE m

\* The post-event check at the end of telnet_client_action().
post_event(m, c) ==
  IF m.heap[c].state = "linger" /\ ~m.heap[c].linger_timer
    THEN LET m1 == [m EXCEPT !.hist[c].shut = @ + 1, !.hist[c].tstart = @ + 1,
                             !.hist[c].cut = @ \o m.heap[c].out]
         IN SetF(olsr_start_timer(m1, c), c, "linger_timer", TRUE)
  ELSE IF m.heap[c].state = "destroy" THEN telnet_client_remove(m, c)
  ELSE m

\* telnet_client_action() making the post-event check between the write and
\* the read instead of after both.
telnet_client_action_check_before_read(m, c, flags, wres, rres) ==
  LET m1 == IF SP_PR_WRITE \in flags THEN telnet_client_write(m, c, wres) ELSE m
      m2 == post_event(m1, c)
  IN IF c \notin m2.live THEN m2
     ELSE IF SP_PR_READ \in flags THEN telnet_client_read(m2, c, rres) ELSE m2

\* The reactor passes the pointer given to add_olsr_socket(), which is never
\* NULL, so the branch for !c is not taken.
telnet_client_action(m, c, flags, wres, rres) ==
  LET m1 == IF SP_PR_WRITE \in flags THEN telnet_client_write(m, c, wres) ELSE m
      m2 == IF SP_PR_READ \in flags THEN telnet_client_read(m1, c, rres) ELSE m1
  IN post_event(m2, c)

\* telnet_client_linger_timeout() marking the session for destruction and
\* leaving the removal to the next readiness callback.
telnet_client_linger_timeout_mark_only(m, c) ==
  SetF(SetF(m, c, "linger_timer", FALSE), c, "state", "destroy")

telnet_client_linger_timeout(m, c) ==
  telnet_client_remove(SetF(m, c, "linger_timer", FALSE), c)

\* ------------------------------------------------------------ the machine
Init ==
  /\ sfd = NOFD
  /\ clients = NULL
  /\ heap = [a \in Addr |-> NoClient]
  /\ live = {}
  /\ openfds = {}
  /\ socks = {}
  /\ timers = {}
  /\ crashed = FALSE
  /\ hist = [a \in Addr |-> NoHist]
  /\ fault = "none"

RcvdLen == [a \in Addr |-> Len(hist[a].rcvd)]
ApiLen == [a \in Addr |-> hist[a].napi]
Given == SumOver(live, RcvdLen) + SumOver(live, ApiLen)

\* What recv() can return for session c.
RecvResults(c) ==
  {[k |-> EOF], [k |-> EAGAIN], [k |-> EFATAL]} \cup
  {[k |-> "data", bytes |-> b] :
     b \in IF heap[c].state = "active"
             THEN SeqsUpTo(MaxIn - Given)
             ELSE {<<CH>>}}

\* What send() can return for session c.
SendResults(c) ==
  {[k |-> EAGAIN], [k |-> EFATAL]} \cup
  {[k |-> "n", n |-> n] :
     n \in IF heap[c].out = <<>> THEN {0} ELSE 1..Len(heap[c].out)}

\* The owner of the server struct starts the server.
TelnetInit ==
  /\ ~crashed
  /\ sfd = NOFD
  /\ \E ok \in BOOLEAN : Apply(olsr_telnet_init(Cur("abort"), ok))

\* The owner of the server struct stops the server.
TelnetExit ==
  /\ ~crashed
  /\ sfd # NOFD
  /\ \E ub \in UB : Apply(olsr_telnet_exit(Cur(ub)))

\* The addresses olsr_malloc() may return.  Free addresses no pointer leads to
\* are interchangeable, so the lowest stands for all of them; a free address the
\* registry still points to is a different case each.
MallocChoices ==
  LET unused == (DOMAIN heap) \ live
      stale == unused \cap Reach(heap, clients, {})
      clean == unused \ stale
  IN stale \cup {a \in clean : \A b \in clean : a <= b}

\* The reactor reports the listening socket readable.
Accept ==
  /\ ~crashed
  /\ \E e \in socks :
       /\ e.cb = "telnet_action"
       /\ e.fd \in openfds
       /\ \/ Apply(telnet_action(Cur("abort"), FALSE, NULL))
          \/ /\ FD \ openfds # {}
             /\ \E c \in MallocChoices : Apply(telnet_action(Cur("abort"), TRUE, c))

\* The reactor reports a session socket ready.
ClientAction ==
  /\ ~crashed
  /\ \E e \in socks :
       /\ e.cb = "telnet_client_action"
       /\ e.fd \in openfds
       /\ \E flags \in (SUBSET e.flags) \ {{}} :
          \E wres \in IF SP_PR_WRITE \in flags THEN SendResults(e.data)
                                              ELSE {[k |-> EAGAIN]} :
          \E rres \in IF SP_PR_READ \in flags THEN RecvResults(e.data)
                                             ELSE {[k |-> EAGAIN]} :
          Apply(telnet_client_action(Cur("abort"), e.data, flags, wres, rres))

\* The timer service fires the linger timer of session c (one-shot: it is
\* gone afterwards).
LingerExpiry(c) ==
  /\ ~crashed
  /\ c \in timers
  /\ Apply(telnet_client_linger_timeout(olsr_stop_timer(Cur("abort"), c), c))

LingerTimeout == \E c \in DOMAIN heap : LingerExpiry(c)

\* Another module calls olsr_telnet_client_quit() on a session it holds.
ApiQuit ==
  /\ ~crashed
  /\ \E c \in live : \E now \in BOOLEAN :
       Apply(olsr_telnet_client_quit(Cur("abort"), c, now))

\* Another module calls olsr_telnet_client_printf() on a session it holds.
ApiPrintf ==
  /\ ~crashed
  /\ Given < MaxIn
  /\ \E c \in live :
       Apply([olsr_telnet_client_printf(Cur("abort"), c, <<CH>>)
                EXCEPT !.hist[c].napi = @ + 1])

Next ==
  \/ TelnetInit
  \/ TelnetExit
  \/ Accept
  \/ ClientAction
  \/ LingerTimeout
  \/ ApiQuit
  \/ ApiPrintf

Spec == Init /\ [][Next]_vars

\* Only olsr_telnet_exit() reaches a released struct: every other operation
\* leaves fault as it is, so the outcome of undefined behaviour is an input of
\* TelnetExit alone.
OnlyExitTouchesReleased ==
  [][TelnetExit \/ (fault' = fault /\ crashed' = crashed)]_vars

\* The reactor reports session c writable and send() accepts n > 0 bytes.
Flush(c) ==
  /\ ~crashed
  /\ \E e \in socks :
       /\ e.cb = "telnet_client_action"
       /\ e.data = c
       /\ e.fd \in openfds
       /\ SP_PR_WRITE \in e.flags
       /\ \E n \in 1..Len(heap[c].out) :
            Apply(telnet_client_action(Cur("abort"), c, {SP_PR_WRITE},
                                       [k |-> "n", n |-> n], [k |-> EAGAIN]))

\* The reactor keeps reporting the write readiness a session is registered
\* for, send() eventually accepts bytes, and the timer service fires every
\* timer it holds.  Nothing makes a peer send or close.
FairSpec ==
  /\ Spec
  /\ \A c \in Addr : WF_vars(Flush(c))
  /\ \A c \in Addr : WF_vars(LingerExpiry(c))

\* The registry: the addresses the list of s->clients leads to.
Registry == Reach(heap, clients, {})

\* The reactor's entries for session sockets.
ClientSocks == {e \in socks : e.cb = "telnet_client_action"}

WriteInterest(c) ==
  \E e \in ClientSocks : e.data = c /\ SP_PR_WRITE \in e.flags

\* What the callback of session c does when recv() reports the peer's close.
PeerClose(c) ==
  telnet_client_action(Cur("abort"), c, {SP_PR_READ}, [k |-> EAGAIN], [k |-> EOF])

\* ------------------------------------------------- the "ping" scenario
\* One client at a time connects and sends "ping\r\n", in chunks of any
\* size, and then nothing more; it may close once the server has half-closed.
\* No other module calls the API and the server is not stopped.
Ping == <<"p", "i", "n", "g", CR, LF>>
PingCmd == <<"p", "i", "n", "g">>
PingReply == <<"p", "i", "n", "g", LF>>

\* A client connects while no other session exists.
AcceptAlone == live = {} /\ Accept

\* The reactor reports session c readable and recv() returns the next chunk.
PingSend ==
  /\ ~crashed
  /\ \E e \in socks :
       /\ e.cb = "telnet_client_action"
       /\ e.fd \in openfds
       /\ SP_PR_READ \in e.flags
       /\ LET c == e.data
              rest == Drop(Ping, Len(hist[c].rcvd))
          IN \E n \in 1..Len(rest) :
               Apply(telnet_client_action(Cur("abort"), c, {SP_PR_READ},
                                          [k |-> EAGAIN],
                                          [k |-> "data", bytes |-> Take(rest, n)]))

\* The reactor reports a session writable and send() accepts some bytes.
PingFlush == \E c \in Addr : Flush(c)

\* The peer of a session in linger closes: recv() returns 0.
PingPeerClose ==
  /\ ~crashed
  /\ \E c \in live :
       /\ heap[c].state = "linger"
       /\ Apply(PeerClose(c))

PingNext ==
  \/ TelnetInit
  \/ AcceptAlone
  \/ PingSend
  \/ PingFlush
  \/ PingPeerClose
  \/ LingerTimeout

PingSpec == Init /\ [][PingNext]_vars

\* The reactor reports write readiness, send() eventually accepts bytes and
\* the timer service fires its timers; the peer need not close.
PingFairSpec ==
  /\ PingSpec
  /\ \A c \in Addr : WF_vars(Flush(c))
  /\ \A c \in Addr : WF_vars(LingerExpiry(c))

\* --------------------------------------------- the line-framer scenario
\* One client at a time sends any bytes in chunks of any size to a server
\* whose command handler answers every command with its text and does not
\* ask for termination, so the session stays active.
FramerRead ==
  /\ ~crashed
  /\ \E e \in socks :
       /\ e.cb = "telnet_client_action"
       /\ e.fd \in openfds
       /\ SP_PR_READ \in e.flags
       /\ \E b \in SeqsUpTo(FramerLen - Len(hist[e.data].rcvd)) :
            Apply(telnet_client_action(Plugged(Cur("abort")), e.data, {SP_PR_READ},
                                       [k |-> EAGAIN],
                                       [k |-> "data", bytes |-> b]))

FramerNext ==
  \/ TelnetInit
  \/ AcceptAlone
  \/ FramerRead

FramerSpec == Init /\ [][FramerNext]_vars

\* ------------------------------------------------- the running server
\* The server between olsr_telnet_init() and olsr_telnet_exit(), serving one
\* client at a time; peers and other modules do what they like.
RunNext ==
  \/ TelnetInit
  \/ AcceptAlone
  \/ ClientAction
  \/ LingerTimeout
  \/ ApiQuit
  \/ ApiPrintf

RunSpec == Init /\ [][RunNext]_vars

\* The timer service fires every timer it holds; no readiness event need
\* ever be reported.
TimerFairSpec ==
  /\ RunSpec
  /\ \A c \in Addr : WF_vars(LingerExpiry(c))

\* What the expiry of the linger timer of session c leads to.
Expired(c) ==
  telnet_client_linger_timeout(olsr_stop_timer(Cur("abort"), c), c)

\* The callback for session c in which send() accepts the whole output buffer.
FlushAll(c, flags, rres) ==
  telnet_client_action(Cur("abort"), c, flags,
                       [k |-> "n", n |-> Len(heap[c].out)], rres)

\* --------------------------------------------- the many-sessions scenario
\* Up to Sessions clients are connected at a time.  Each sends an empty line,
\* gets the reply in one piece and lingers; a session ends by a fatal error
\* of recv() or send(), by the peer's close or by the expiry of its timer.
\* No other module calls the API and the server is not stopped.
TrioInit ==
  /\ sfd = NOFD
  /\ clients = NULL
  /\ heap = [a \in TrioAddr |-> NoClient]
  /\ live = {}
  /\ openfds = {}
  /\ socks = {}
  /\ timers = {}
  /\ crashed = FALSE
  /\ hist = [a \in TrioAddr |-> NoHist]
  /\ fault = "none"

\* The reactor reports a session readable and recv() returns "\n".
TrioLine ==
  /\ ~crashed
  /\ \E c \in live :
       /\ heap[c].state = "active"
       /\ Apply(telnet_client_action(Cur("abort"), c, {SP_PR_READ}, [k |-> EAGAIN],
                                     [k |-> "data", bytes |-> <<LF>>]))

\* The reactor reports a session writable and send() accepts all its output.
TrioFlush ==
  /\ ~crashed
  /\ \E c \in live :
       /\ WriteInterest(c)
       /\ Apply(FlushAll(c, {SP_PR_WRITE}, [k |-> EAGAIN]))

\* What the events that end session c lead to: recv() returns 0 or fails,
\* send() fails, the linger timer expires.
Ends(c) ==
  {PeerClose(c),
   telnet_client_action(Cur("abort"), c, {SP_PR_READ}, [k |-> EAGAIN], [k |-> EFATAL])}
  \cup (IF WriteInterest(c)
          THEN {telnet_client_action(Cur("abort"), c, {SP_PR_WRITE}, [k |-> EFATAL],
                                     [k |-> EAGAIN])}
          ELSE {})
  \cup (IF c \in timers THEN {Expired(c)} ELSE {})

\* One of the sessions ends.
TrioEnd ==
  /\ ~crashed
  /\ \E c \in live : \E r \in Ends(c) : Apply(r)

TrioNext ==
  \/ TelnetInit
  \/ Accept
  \/ TrioLine
  \/ TrioFlush
  \/ TrioEnd

TrioSpec == TrioInit /\ [][TrioNext]_vars

\* ================================================================ claims
FirstLF(s) == CHOOSE i \in 1..Len(s) : s[i] = LF /\ \A j \in 1..(i - 1) : s[j] # LF

\* The newline-terminated lines of s, in order, each without its LF and
\* without a CR right before the LF.
RECURSIVE Lines(_)
Lines(s) ==
  IF CountLF(s) = 0 THEN <<>>
  ELSE LET i == FirstLF(s)
           l == Take(s, i - 1)
           t == IF l # <<>> /\ l[Len(l)] = CR THEN Take(l, Len(l) - 1) ELSE l
       IN <<t>> \o Lines(Drop(s, i))

\* C1: the dispatcher calls of a session are exactly the newline-terminated
\* lines it has received, in order: N lines give N calls with the lines' texts.
C1_EveryLineDispatched ==
  \A c \in live : hist[c].dlog = Lines(hist[c].rcvd)

\* C2: a line split across reads of an active session is dispatched exactly
\* once, by the read that delivers its LF: while no LF has arrived nothing is
\* dispatched and the partial line stays in the input buffer; once the LF has
\* arrived there is exactly one dispatch, and the LF came with the latest
\* read appended to the buffer.
C2_SplitLineDispatchedOnce ==
  \A c \in live :
    LET r == hist[c].rcvd IN
      /\ CountLF(r) = 0 => (hist[c].dlog = <<>> /\ heap[c].in = r)
      /\ CountLF(r) > 0 => (Len(hist[c].dlog) = 1 /\ FirstLF(r) > hist[c].lastoff)

\* A line split between CR and LF has been dispatched, with empty text.
C2_Witness ==
  \E c \in live :
    /\ hist[c].rcvd = <<CR, LF>>
    /\ hist[c].lastoff = 1
    /\ hist[c].dlog = << <<>> >>

\* C3: the state destroy is never left: a session that is in destroy and is
\* not released by a step is still in destroy after it.
C3_DestroyNeverLeft ==
  [][\A c \in Addr :
       (c \in live /\ heap[c].state = "destroy" /\ c \in live')
         => heap'[c].state = "destroy"]_vars

\* C4: a session that is pending eventually is in linger or destroy, or released.
C4_PendingLeadsOn ==
  \A c \in Addr :
    (c \in live /\ heap[c].state = "pending")
      ~> (c \notin live \/ heap[c].state \in {"linger", "destroy"} \/ crashed)

\* C5: over the life of a session at most one half-close is issued and at most
\* one linger timer started, and a session seen in linger between callbacks
\* has had exactly one of each and its timer runs.
C5_OneHalfCloseOneTimer ==
  \A c \in live :
    /\ hist[c].shut <= 1
    /\ hist[c].tstart <= 1
    /\ heap[c].state = "linger" =>
         /\ hist[c].shut = 1
         /\ hist[c].tstart = 1
         /\ heap[c].linger_timer
         /\ c \in timers
    /\ heap[c].linger_timer <=> hist[c].tstart = 1

C5_Witness ==
  \E c \in live :
    /\ heap[c].state = "linger"
    /\ hist[c].shut = 1
    /\ hist[c].tstart = 1
    /\ c \in timers

\* C6: the timer service never holds a timer whose session was released, so
\* no linger-timer callback fires on a released session; and for a session
\* in linger, the callback that reads the peer's close releases the session
\* and cancels its timer.
C6_NoTimerOnReleased ==
  /\ timers \subseteq live
  /\ \A c \in live :
       heap[c].state = "linger" =>
         /\ c \notin PeerClose(c).live
         /\ c \notin PeerClose(c).timers
         /\ heap[c].fd \notin PeerClose(c).openfds

\* A session is in linger with its timer running, and the peer's close
\* releases it and cancels the timer.
C6_Witness ==
  \E c \in live :
    /\ heap[c].state = "linger"
    /\ c \in timers
    /\ PeerClose(c).live = live \ {c}
    /\ PeerClose(c).timers = timers \ {c}

\* C7: the bytes sent followed by the bytes still buffered are the bytes
\* queued (nothing lost, repeated or reordered); write interest is withdrawn
\* at most once, is on only while bytes are buffered, and has been withdrawn
\* once the output of a dispatch is sent completely.
C7_DrainedInOrder ==
  \A c \in live :
    /\ hist[c].sent \o heap[c].out = hist[c].queued
    /\ hist[c].wdis <= 1
    /\ WriteInterest(c) => (heap[c].out # <<>> /\ hist[c].wdis = 0)
    /\ (hist[c].dlog # <<>> /\ hist[c].napi = 0 /\ heap[c].out = <<>>)
         => hist[c].wdis = 1
    /\ hist[c].wdis = 1 => hist[c].nsends >= 1

\* An output buffer of two bytes was drained by two sends.
C7_Witness ==
  \E c \in live :
    /\ hist[c].nsends = 2
    /\ Len(hist[c].sent) = 2
    /\ heap[c].out = <<>>
    /\ hist[c].wdis = 1
    /\ ~WriteInterest(c)

\* C8: when the server is down (after olsr_telnet_exit) the registry is
\* empty, no session socket is open or registered, and no linger timer runs.
C8_ExitEmptiesRegistry ==
  (sfd = NOFD /\ ~crashed) =>
    /\ clients = NULL
    /\ ClientSocks = {}
    /\ openfds = {}
    /\ timers = {}

\* C9: no session is closed or freed a second time and no released session
\* is accessed.
C9_ReleasedExactlyOnce == fault = "none"

\* C10: between callbacks the session sockets registered with the reactor are
\* the sockets of the sessions in the registry, and a session is in the
\* registry iff it is not released and its socket is open.
C10_RegistryMatchesReactor ==
  ~crashed =>
    /\ {e.fd : e \in ClientSocks} = {heap[c].fd : c \in Registry}
    /\ \A c \in Addr : c \in Registry <=> (c \in live /\ heap[c].fd \in openfds)

\* C11: between callbacks a live session that has output queued has write
\* interest enabled; olsr_telnet_client_printf() on an empty buffer enables it.
C11_QueuedOutputHasWriteInterest ==
  \A c \in live :
    heap[c].out # <<>> => WriteInterest(c)

\* What holds of session c between callbacks in the "ping" scenario.
PingSession(c) ==
  /\ hist[c].rcvd = Take(Ping, Len(hist[c].rcvd))
  /\ hist[c].rcvd # Ping =>
       /\ heap[c].state = "active"
       /\ hist[c].dlog = <<>>
       /\ hist[c].queued = <<>>
  /\ hist[c].rcvd = Ping =>
       /\ hist[c].dlog = <<PingCmd>>
       /\ hist[c].queued = PingReply
       /\ hist[c].sent \o heap[c].out = PingReply
       /\ heap[c].state \in {"pending", "linger"}
  /\ heap[c].state = "pending" =>
       /\ heap[c].out # <<>>
       /\ WriteInterest(c)
       /\ hist[c].shut = 0
       /\ c \notin timers
  /\ heap[c].state = "linger" =>
       /\ hist[c].sent = PingReply
       /\ hist[c].shut = 1
       /\ hist[c].tstart = 1
       /\ c \in timers
       /\ c \notin PeerClose(c).live
       /\ heap[c].fd \notin PeerClose(c).openfds

\* The sessions not released are the linked ones, and only they have a
\* socket open, a reactor entry or a timer.
PingReleased ==
  /\ Registry = live
  /\ {e.data : e \in ClientSocks} = live
  /\ openfds = ({heap[c].fd : c \in live} \cup {sfd}) \ {NOFD}
  /\ timers \subseteq live

\* C12: a client that sent "ping\r\n" gets one dispatch with "ping" and the
\* reply "ping\n" queued with graceful termination; the reply is sent
\* completely before the half-close and the start of the linger timer; the
\* peer's close during linger releases the session at once, a session is
\* released only from linger after the whole reply was sent, and in any case
\* it is eventually released, unlinked and its socket closed.
C12_PingEndToEnd ==
  /\ [](PingReleased /\ \A c \in live : PingSession(c))
  /\ [][\A c \in live \ live' :
         heap[c].state = "linger" /\ hist[c].sent = PingReply]_vars
  /\ \A c \in Addr : (c \in live /\ hist[c].rcvd = Ping) ~> (c \notin live)

\* The reply was sent in full and the session lingers with its timer running.
C12_Witness ==
  \E c \in live :
    /\ hist[c].rcvd = Ping
    /\ hist[c].dlog = <<PingCmd>>
    /\ hist[c].sent = PingReply
    /\ heap[c].state = "linger"
    /\ c \in timers

\* The bytes of s after its last LF: the line not yet terminated.
RECURSIVE Unterminated(_)
Unterminated(s) ==
  IF CountLF(s) = 0 THEN s ELSE Unterminated(Drop(s, FirstLF(s)))

LineArrives(c) ==
  telnet_client_read(Cur("abort"), c, [k |-> "data", bytes |-> <<CH, LF>>])

\* C14: the dispatcher is called for active sessions only: every call found
\* the session active; the call that makes the session leave active is the
\* last one, whatever lines came with it; and a read that returns data for a
\* session that is pending, in linger or in destroy changes neither its input
\* buffer nor its state nor the calls made.
C14_DispatchOnlyWhenActive ==
  \A c \in live :
    /\ \A i \in 1..Len(hist[c].dstate) : hist[c].dstate[i] = "active"
    /\ Len(hist[c].dlog) = Len(hist[c].dstate)
    /\ heap[c].state = "active" => hist[c].dlog = <<>>
    /\ Len(hist[c].dlog) <= 1
    /\ heap[c].state # "active" =>
         /\ LineArrives(c).heap[c] = heap[c]
         /\ LineArrives(c).hist[c].dlog = hist[c].dlog

\* A read delivered two lines at once and only the first was dispatched; the
\* session is pending and a line arriving now would be discarded.
C14_Witness ==
  \E c \in live :
    /\ hist[c].rcvd = <<LF, LF>>
    /\ hist[c].dlog = << <<>> >>
    /\ heap[c].state = "pending"
    /\ LineArrives(c).heap[c].in = heap[c].in
    /\ LineArrives(c).hist[c].dlog = hist[c].dlog

\* What the callbacks the reactor can make for session c lead to: one
\* outcome for each set of signalled interests and each result of send() and
\* recv().
CallbackOutcomes(c) ==
  UNION {{telnet_client_action(Cur("abort"), c, flags, wres, rres) :
            flags \in (SUBSET e.flags) \ {{}},
            wres \in SendResults(c),
            rres \in RecvResults(c) \cup {[k |-> "data", bytes |-> <<CH, LF>>]}} :
         e \in {x \in ClientSocks : x.data = c /\ x.fd \in openfds}}

\* C15 as claimed: the callback that takes an active session to pending (a
\* complete line arrives and is dispatched) carries it on to linger, with the
\* half-close issued and the linger timer started when it returns.
C15_ActiveToLingerInOneCallback ==
  \A c \in live :
    heap[c].state = "active" =>
      \A r \in CallbackOutcomes(c) :
        (c \in r.live /\ r.heap[c].state # "active") =>
          /\ r.heap[c].state = "linger"
          /\ r.hist[c].shut = 1
          /\ c \in r.timers

\* C15 amended: the post-event check sees the state left by the write and
\* then the read of the callback.  No callback returns with the session in
\* destroy; a callback that finds the session active leaves it active or
\* pending or releases it, never in linger (the write comes before the read
\* that dispatches); a callback that finds it pending and sends the rest of
\* the output returns with the session in linger, the half-close issued and
\* the timer started, unless its read ends the session, and then the session
\* is released with no half-close and no timer.
C15_PostEventAfterWriteAndRead ==
  \A c \in live :
    /\ \A r \in CallbackOutcomes(c) :
         /\ c \in r.live => r.heap[c].state # "destroy"
         /\ c \notin r.live => c \notin r.timers
         /\ (c \in r.live /\ heap[c].state = "active") =>
              /\ r.heap[c].state \in {"active", "pending"}
              /\ r.hist[c].shut = 0
              /\ c \notin r.timers
         /\ (c \in r.live /\ r.heap[c].state = "linger") =>
              /\ heap[c].state \in {"pending", "linger"}
              /\ r.hist[c].shut = 1
              /\ r.hist[c].tstart = 1
              /\ c \in r.timers
    /\ (heap[c].state = "pending" /\ WriteInterest(c)) =>
         /\ FlushAll(c, {SP_PR_WRITE, SP_PR_READ}, [k |-> EAGAIN]).heap[c].state = "linger"
         /\ c \in FlushAll(c, {SP_PR_WRITE, SP_PR_READ}, [k |-> EAGAIN]).timers
         /\ c \notin FlushAll(c, {SP_PR_WRITE, SP_PR_READ}, [k |-> EOF]).live
         /\ c \notin FlushAll(c, {SP_PR_WRITE, SP_PR_READ}, [k |-> EOF]).timers

\* A session is pending with output queued, and the callback that sends it
\* all returns with the session in linger, half-closed, its timer started.
C15_Witness ==
  \E c \in live :
    /\ heap[c].state = "pending"
    /\ WriteInterest(c)
    /\ hist[c].shut = 0
    /\ FlushAll(c, {SP_PR_WRITE}, [k |-> EAGAIN]).heap[c].state = "linger"
    /\ FlushAll(c, {SP_PR_WRITE}, [k |-> EAGAIN]).hist[c].shut = 1
    /\ c \in FlushAll(c, {SP_PR_WRITE}, [k |-> EAGAIN]).timers

\* C16: shutdown(SHUT_WR) is called with the output buffer empty; a callback
\* takes a session to linger only from pending and only with a send that
\* empties the output buffer, so all bytes queued until then have been sent.
C16_HalfCloseAfterDrain ==
  \A c \in live :
    /\ hist[c].cut = <<>>
    /\ hist[c].shut = 1 => (hist[c].nsends >= 1 /\ hist[c].wdis = 1)
    /\ heap[c].state = "linger" => hist[c].shut = 1
    /\ \A r \in CallbackOutcomes(c) :
         (c \in r.live /\ r.heap[c].state = "linger" /\ heap[c].state # "linger") =>
           /\ heap[c].state = "pending"
           /\ r.heap[c].out = <<>>
           /\ r.hist[c].nsends = hist[c].nsends + 1
           /\ r.hist[c].sent = hist[c].queued
           /\ r.hist[c].cut = <<>>

\* The half-close was issued after the reply had been sent in two parts.
C16_Witness ==
  \E c \in live :
    /\ hist[c].shut = 1
    /\ hist[c].nsends = 2
    /\ hist[c].sent = hist[c].queued
    /\ Len(hist[c].queued) = 2
    /\ hist[c].cut = <<>>

\* C17: a session in linger has its timer running, the timer's expiry
\* unlinks and releases it and closes its socket, and so every session in
\* linger is eventually released, whatever the peer and the reactor do.
C17_LingerEndsByTimer ==
  /\ [](/\ Registry = live
        /\ \A c \in live :
             heap[c].state = "linger" =>
               /\ c \in timers
               /\ c \notin Expired(c).live
               /\ c \notin Reach(Expired(c).heap, Expired(c).clients, {})
               /\ heap[c].fd \notin Expired(c).openfds
               /\ \A e \in Expired(c).socks : e.data # c
               /\ Expired(c).fault = "none")
  /\ \A c \in Addr :
       (c \in live /\ heap[c].state = "linger") ~> (c \notin live)

\* A session lingers and the expiry of its timer would release it.
C17_Witness ==
  \E c \in live :
    /\ heap[c].state = "linger"
    /\ c \in timers
    /\ Expired(c).live = live \ {c}
    /\ Expired(c).clients = NULL

\* The sets of interests the reactor can signal for session c.
Signals(c) ==
  UNION {(SUBSET e.flags) \ {{}} :
           e \in {x \in ClientSocks : x.data = c /\ x.fd \in openfds}}

\* The callback for session c in which every operation attempted meets a
\* transient condition (EAGAIN, EWOULDBLOCK or EINTR).
Transient(c, flags) ==
  telnet_client_action(Cur("abort"), c, flags, [k |-> EAGAIN], [k |-> EAGAIN])

\* C18 as claimed: a callback whose read and write meet transient conditions
\* leaves everything as it was: the session's state, buffers, interests,
\* timer and place in the registry.
C18_TransientChangesNothing ==
  \A c \in live : \A flags \in Signals(c) :
    Transient(c, flags) = Cur("abort")

\* C18 amended: telnet_client_read() and telnet_client_write() change
\* nothing on a transient condition, and the callback leaves everything as it
\* was (so the reactor reports the same interests again) unless the session
\* was already in destroy when the callback began, and then the post-event
\* check releases it and closes its socket.
C18_TransientChangesNothingUnlessDestroy ==
  \A c \in live :
    /\ telnet_client_read(Cur("abort"), c, [k |-> EAGAIN]) = Cur("abort")
    /\ telnet_client_write(Cur("abort"), c, [k |-> EAGAIN]) = Cur("abort")
    /\ \A flags \in Signals(c) :
         /\ heap[c].state # "destroy" => Transient(c, flags) = Cur("abort")
         /\ heap[c].state = "destroy" =>
              /\ c \notin Transient(c, flags).live
              /\ heap[c].fd \notin Transient(c, flags).openfds

\* A pending session with output queued gets a callback in which both send()
\* and recv() would block, and nothing changes.
C18_Witness ==
  \E c \in live :
    /\ heap[c].state = "pending"
    /\ heap[c].out # <<>>
    /\ {SP_PR_READ, SP_PR_WRITE} \in Signals(c)
    /\ Transient(c, {SP_PR_READ, SP_PR_WRITE}) = Cur("abort")

\* The listener's entry in the reactor.
Listener == {e \in socks : e.cb = "telnet_action"}

\* C19: the end of one session (fatal error of recv() or send(), close by the
\* peer, expiry of its linger timer) releases that session only: no other
\* session's struct (but for the link that pointed to the one released),
\* history, timer, reactor entry, descriptor or place in the registry
\* changes, wherever the released session was in the list, and the listener
\* stays registered.
C19_OnlyThatSessionDestroyed ==
  /\ Registry = live
  /\ \A c \in live : \A r \in Ends(c) :
       /\ r.live = live \ {c}
       /\ Reach(r.heap, r.clients, {}) = Registry \ {c}
       /\ \A d \in live \ {c} :
            /\ [r.heap[d] EXCEPT !.next = NULL] = [heap[d] EXCEPT !.next = NULL]
            /\ r.heap[d].next = IF heap[d].next = c THEN heap[c].next
                                                    ELSE heap[d].next
            /\ r.hist[d] = hist[d]
       /\ r.timers = timers \ {c}
       /\ r.socks = {e \in socks : e.data # c}
       /\ r.openfds = openfds \ {heap[c].fd}
       /\ r.sfd = sfd
       /\ Listener # {}
       /\ r.fault = "none"
       /\ ~r.crashed

\* Three sessions, one active, one pending with output queued, one in linger
\* with its timer running; each of them, the first, the middle and the last
\* of the list, can end and leaves the two others.
C19_Witness ==
  /\ Cardinality(live) = 3
  /\ \E a \in live : heap[a].state = "active"
  /\ \E a \in live : heap[a].state = "pending" /\ heap[a].out # <<>>
  /\ \E a \in live : heap[a].state = "linger" /\ a \in timers
  /\ \A c \in live : \A r \in Ends(c) : r.live = live \ {c}
  /\ \E c \in live : c # clients /\ heap[c].next # NULL

====
